---- MODULE Spec2Model ----
(***************************************************************************)
(* Model of the Greens-function random field samplers                      *)
(* (nitorch/nn/generators/field.py) and of the VoxelMorph registration     *)
(* pipeline (nitorch/nn/modules/registration.py).                          *)
(*                                                                         *)
(* Tensors are represented by their shapes (sequences of extents); a       *)
(* Greens kernel is represented by the arguments it was built from, since  *)
(* the kernel builder is a deterministic function of them.  Floating-point *)
(* numbers are integers on a fine grid, and a dtype keeps a number of      *)
(* significant bits of them (round to nearest, ties to even).              *)
(***************************************************************************)
EXTENDS Integers, Sequences, FiniteSets, TLC

\* ---------------------------------------------------------------- bounds
MaxExtent == 2      \* largest extent of a lattice axis
MaxDim == 2         \* largest lattice dimensionality
MaxBatch == 2       \* largest batch size
MaxChannel == 2     \* largest channel count

\* ------------------------------------------------------------- state
VARIABLES
    f_self,     \* attributes set by RandomFieldGreens.__init__
    f_cache,    \* attributes set outside the constructor (name -> value)
    f_call,     \* the forward call in progress: its request and outcome
    f_built     \* history: the request of the most recent stored build

f_vars == <<f_self, f_cache, f_call, f_built>>

VARIABLES
    g_self,     \* attributes set by RandomGridGreens.__init__
    g_cache,    \* attributes set outside the constructor (name -> value)
    g_call,     \* the forward call in progress: its request and outcome
    g_built     \* history: the request of the most recent stored build

g_vars == <<g_self, g_cache, g_call, g_built>>

VARIABLES
    vm_self,    \* what VoxelMorph.__init__ leaves on the instance
    vm_call,    \* the call in progress: its inputs, its trace and its result
    vm_new,     \* the constructor call in progress: its arguments
    vm_held     \* dictionaries the caller keeps and passes to constructors

vm_vars == <<vm_self, vm_call, vm_new, vm_held>>

VARIABLES
    r_cache,    \* per sampler instance: attributes set outside the constructor
    r_thread,   \* per thread: its position in forward and its local variables
    r_raced     \* history, per instance: two calls on it have overlapped

r_vars == <<r_cache, r_thread, r_raced>>

VARIABLES
    q_root      \* the square-root stage: the kernel it is given, what it returns

q_vars == <<q_root>>

VARIABLES
    h_self,     \* hyper-parameters set by the constructor of a hyper-random field
    h_call      \* the forward call in progress: its samplers and what they drew

h_vars == <<h_self, h_call>>

VARIABLES
    b_self,     \* the module passed to registration_board: its tbstep attribute
    b_tb,       \* the summary writer: the figures logged so far
    b_call      \* the call of registration_board in progress

b_vars == <<b_self, b_tb, b_call>>

vars == <<f_vars, g_vars, vm_vars, r_vars, q_vars, h_vars, b_vars>>

\* ------------------------------------------------------- generic helpers
Max(a, b) == IF a >= b THEN a ELSE b

SeqsUpTo(S, n) == UNION {[1..k -> S] : k \in 1..n}

Ones(n) == [i \in 1..n |-> 1]

\* Shape of `x.unsqueeze(-1)` repeated n times (utils.unsqueeze(x, -1, n)).
unsqueeze(shape, n) == shape \o Ones(n)

\* ------------------------------------------------ torch broadcasting rule
PadLeft(s, n) == [i \in 1..n |-> IF i <= n - Len(s) THEN 1 ELSE s[i - (n - Len(s))]]

Broadcastable(a, b) ==
    LET n == Max(Len(a), Len(b))
        pa == PadLeft(a, n)
        pb == PadLeft(b, n)
    IN  \A i \in 1..n : pa[i] = pb[i] \/ pa[i] = 1 \/ pb[i] = 1

BroadcastShape(a, b) ==
    LET n == Max(Len(a), Len(b))
        pa == PadLeft(a, n)
        pb == PadLeft(b, n)
    IN  [i \in 1..n |-> Max(pa[i], pb[i])]

\* An in-place operation `a op= b` needs the broadcast result to have the
\* shape of `a`; otherwise torch raises a RuntimeError.
InplaceOk(a, b) == Broadcastable(a, b) /\ BroadcastShape(a, b) = a

\* ------------------------------------------------- floating point model
Dtypes == {"float32", "float64"}
Devices == {"cpu", "cuda"}

\* Voxel sizes on a grid of quarter units: 4 is 1.0 and 5 is 1.25.
VoxelValues == {4, 5}

\* Significant bits kept by a dtype (scaled-down float32 / float64).
MantBits(dtype) == IF dtype = "float32" THEN 2 ELSE 4

RECURSIVE Pow2(_)
Pow2(n) == IF n = 0 THEN 1 ELSE 2 * Pow2(n - 1)

RECURSIVE BitLen(_)
BitLen(x) == IF x = 0 THEN 0 ELSE 1 + BitLen(x \div 2)

\* Round x to p significant bits, to nearest, ties to even.
RoundBits(x, p) ==
    IF BitLen(x) <= p THEN x
    ELSE LET q == Pow2(BitLen(x) - p)
             lo == x \div q
             r == x % q
         IN  IF 2 * r < q THEN lo * q
             ELSE IF 2 * r > q THEN (lo + 1) * q
             ELSE IF lo % 2 = 0 THEN lo * q ELSE (lo + 1) * q

\* utils.make_vector(input, n): a scalar or short vector is padded with its
\* last value up to n elements, a longer one is cropped.
make_vector(input, n) ==
    [i \in 1..n |-> IF i <= Len(input) THEN input[i] ELSE input[Len(input)]]

\* `utils.make_vector(voxel_size, nb_dim, **backend).tolist()`: the vector is
\* stored in the requested dtype and read back as a list of python floats.
voxel_list(voxel_size, nb_dim, dtype) ==
    LET v == make_vector(voxel_size, nb_dim)
    IN  [i \in 1..nb_dim |-> RoundBits(v[i], MantBits(dtype))]

\* ----------------------------------------------------------- input sets
Extents == 1..MaxExtent
Shapes == SeqsUpTo(Extents, MaxDim)
Batches == 1..MaxBatch
Channels == 1..MaxChannel
\* A scalar voxel size (one element) or one value per axis.
VoxelSizes == SeqsUpTo(VoxelValues, MaxDim)

\* ------------------------------------------------------- kernel builder
\* spatial.greens(shape, absolute, membrane, bending, lame, voxel_size):
\* a real array over the lattice, with two trailing (d, d) axes when the
\* Lame term is non-zero.
any(lame) == \E i \in DOMAIN lame : lame[i] # 0

greens(shape, weights, lame, voxel_size) ==
    [dims |-> IF any(lame) THEN shape \o <<Len(shape), Len(shape)>> ELSE shape,
     shape |-> shape,
     weights |-> weights,
     lame |-> lame,
     voxel_size |-> voxel_size]

NoKernel == [dims |-> <<>>, shape |-> <<>>, weights |-> <<>>, lame |-> <<>>,
             voxel_size |-> <<>>]

\* =========================================================================
\* RandomFieldGreens
\* =========================================================================
FieldWeights == <<1, 1, 0>>     \* absolute, membrane, bending

\* No build has been stored yet.
NoBuild == [present |-> FALSE, status |-> "none", shape |-> <<>>, channel |-> 0,
            voxel_size |-> <<>>, dtype |-> "float32"]

\* The request of a call that stored its build.
BuildOf(call, channel) ==
    [present |-> TRUE, status |-> call.status, shape |-> call.shape,
     channel |-> channel, voxel_size |-> call.voxel_size, dtype |-> call.dtype]

NoFieldCall ==
    [status |-> "none", path |-> "none", rebuilt |-> FALSE, stored |-> FALSE,
     same_as_stored |-> FALSE, greens |-> NoKernel, mean_added |-> FALSE,
     out |-> <<>>, batch |-> 0, shape |-> <<>>, channel |-> 0,
     voxel_size |-> <<>>, dtype |-> "float32"]

\* RandomFieldGreens.__init__, with cache_greens drawn from the given set.
FieldInit(cache_greens) ==
    /\ f_self \in [mean : {1}, weights : {FieldWeights}, cache_greens : cache_greens]
    /\ f_cache = <<>>
    /\ f_call = NoFieldCall
    /\ f_built = NoBuild

\* The cache test of RandomFieldGreens.forward, evaluated left to right with
\* short-circuit; reading an attribute that was never set raises.
FieldCacheTest(cache, voxel_size, channel, shape) ==
    IF "_greens" \notin DOMAIN cache THEN "miss"
    ELSE IF "_voxel_size" \notin DOMAIN cache THEN "AttributeError"
    ELSE IF cache["_voxel_size"].v # voxel_size THEN "miss"
    ELSE IF "_channel" \notin DOMAIN cache THEN "AttributeError"
    ELSE IF cache["_channel"].v # channel THEN "miss"
    ELSE IF "_shape" \notin DOMAIN cache THEN "AttributeError"
    ELSE IF cache["_shape"].v # shape THEN "miss"
    ELSE "hit"

\* The stacked, square-rooted kernel built by the rebuild branch.
FieldBuild(self, shape, channel, voxel_size) ==
    LET g == greens(shape, self.weights, <<0, 0>>, voxel_size)
    IN  [g EXCEPT !.dims = <<channel>> \o g.dims]

\* The attributes assigned when the rebuilt kernel is cached.
FieldStore(cache, kernel, voxel_size, shape) ==
    LET new == {"_greens", "_voxel_size", "_shape"}
    IN  [a \in DOMAIN cache \cup new |->
            IF a = "_greens" THEN [v |-> kernel]
            ELSE IF a = "_voxel_size" THEN [v |-> voxel_size]
            ELSE IF a = "_shape" THEN [v |-> shape]
            ELSE cache[a]]

\* Does the stored kernel stem from a build with this shape, voxel size and
\* channel count?
FieldSameAsStored(cache, voxel_size, channel, shape) ==
    /\ "_greens" \in DOMAIN cache
    /\ cache["_greens"].v.shape = shape
    /\ cache["_greens"].v.voxel_size = voxel_size
    /\ cache["_greens"].v.dims = <<channel>> \o shape

\* RandomFieldGreens.forward: the call record and the cache it leaves.
FieldForward(self, cache, batch, overload) ==
    LET shape == overload.shape
        channel == overload.channel
        dtype == overload.dtype
        device == overload.device
        nb_dim == Len(shape)
        voxel_size == voxel_list(overload.voxel_size, nb_dim, dtype)
        test == FieldCacheTest(cache, voxel_size, channel, shape)
        kernel == IF test = "hit" THEN cache["_greens"].v
                  ELSE FieldBuild(self, shape, channel, voxel_size)
        store == test = "miss" /\ self.cache_greens
        cache2 == IF store THEN FieldStore(cache, kernel, voxel_size, shape)
                  ELSE cache
        mean_bound == test = "miss"
        sample == <<2, batch, channel>> \o shape
        filter_ok == InplaceOk(sample, unsqueeze(kernel.dims, 1))
        field == Tail(sample)
        mean_ok == InplaceOk(field, unsqueeze(<<channel>>, nb_dim))
        status == IF test = "AttributeError" THEN "AttributeError"
                  ELSE IF ~filter_ok THEN "RuntimeError"
                  ELSE IF ~mean_bound THEN "UnboundLocalError"
                  ELSE IF ~mean_ok THEN "RuntimeError"
                  ELSE "ok"
    IN  [cache |-> cache2,
         call |-> [status |-> status,
                   path |-> IF test = "hit" THEN "cache"
                            ELSE IF test = "miss" THEN "rebuild" ELSE "none",
                   rebuilt |-> test = "miss",
                   stored |-> store,
                   same_as_stored |->
                       FieldSameAsStored(cache, voxel_size, channel, shape),
                   greens |-> IF test = "AttributeError" THEN NoKernel ELSE kernel,
                   mean_added |-> status = "ok",
                   out |-> IF status = "ok" THEN field ELSE <<>>,
                   batch |-> batch, shape |-> shape, channel |-> channel,
                   voxel_size |-> make_vector(overload.voxel_size, nb_dim),
                   dtype |-> dtype]]

\* The keyword arguments of forward; a key that is left out takes the value
\* of the instance attribute, which is one of the values below.
FieldOverloads ==
    [shape : Shapes, channel : Channels, voxel_size : VoxelSizes,
     dtype : Dtypes, device : Devices]

\* A call of sampler(batch, **overload).
FieldForwardCall ==
    /\ f_call.status = "none"
    /\ \E batch \in Batches, overload \in FieldOverloads :
          \E r \in {FieldForward(f_self, f_cache, batch, overload)} :
              /\ f_cache' = r.cache
              /\ f_call' = r.call
              /\ f_built' = IF r.call.stored THEN BuildOf(r.call, r.call.channel)
                            ELSE f_built
    /\ UNCHANGED <<f_self, g_vars, vm_vars, r_vars, q_vars, h_vars, b_vars>>

\* The call returns (or raises); only the cache attributes stay behind.
FieldReturn ==
    /\ f_call.status # "none"
    /\ f_call' = NoFieldCall
    /\ UNCHANGED <<f_self, f_cache, f_built, g_vars, vm_vars, r_vars, q_vars, h_vars, b_vars>>

FieldNext == FieldForwardCall \/ FieldReturn

\* C1: with caching enabled, a forward call that follows a call which
\* completed normally and stored its kernel, and that asks for the same
\* shape, voxel_size and channel (in the same dtype), completes normally
\* without rebuilding, using the stored kernel.
C1_SecondCallUsesCache ==
    [][(/\ f_call.status = "none" /\ f_call'.status # "none"
        /\ f_self.cache_greens
        /\ f_built.present /\ f_built.status = "ok"
        /\ f_call'.shape = f_built.shape
        /\ f_call'.voxel_size = f_built.voxel_size
        /\ f_call'.channel = f_built.channel
        /\ f_call'.dtype = f_built.dtype)
       => (/\ f_call'.status = "ok"
           /\ ~f_call'.rebuilt
           /\ f_call'.greens = f_cache["_greens"].v)]_f_vars

\* C3: the cached state of the scalar sampler is all-or-nothing (kernel,
\* voxel size, lattice shape and channel count), and after a call that
\* stored a kernel each component is the value used for that build.
C3_CachedTupleComplete ==
    /\ DOMAIN f_cache \in {{}, {"_greens", "_voxel_size", "_shape", "_channel"}}
    /\ f_call.stored =>
         /\ DOMAIN f_cache = {"_greens", "_voxel_size", "_shape", "_channel"}
         /\ f_cache["_greens"].v = f_call.greens
         /\ f_cache["_shape"].v = f_call.shape
         /\ f_cache["_channel"].v = f_call.channel

\* C4: a forward call adds the per-channel mean to the field it returns, on
\* the rebuild path and on the path where the request matches the stored
\* kernel; stated here for the calls whose request matches the stored build.
C4_MeanAddedOnCachePath ==
    (f_call.status # "none" /\ f_call.same_as_stored) => f_call.mean_added

\* C5: forward(batch=B) with channel count C and lattice S returns an array
\* of shape (B, C, *S); stated for the calls that build their kernel.
C5_FieldOutputShape ==
    (f_call.status # "none" /\ f_call.rebuilt)
    => (/\ f_call.status = "ok"
        /\ f_call.out = <<f_call.batch, f_call.channel>> \o f_call.shape)

\* =========================================================================
\* RandomGridGreens
\* =========================================================================
\* Lattices of the vector sampler.
GridShapes == Shapes

\* Penalty weights [absolute, membrane, bending, lame]: the defaults, and
\* the defaults with one weight changed.
GridDefaults == [absolute |-> 1, membrane |-> 1, bending |-> 2, lame |-> <<1, 2>>]

GridWeightSets ==
    {GridDefaults,
     [GridDefaults EXCEPT !.absolute = 2],
     [GridDefaults EXCEPT !.membrane = 2],
     [GridDefaults EXCEPT !.bending = 1],
     [GridDefaults EXCEPT !.lame = <<0, 0>>]}

NoGridCall ==
    [status |-> "none", rebuilt |-> FALSE, stored |-> FALSE,
     greens |-> NoKernel, branch |-> "none", out |-> <<>>, batch |-> 0,
     shape |-> <<>>, voxel_size |-> <<>>, dtype |-> "float32"]

\* RandomGridGreens.__init__, with cache_greens drawn from the given set.
GridInit(cache_greens) ==
    /\ g_self \in [mean : {0}, weights : {GridDefaults}, cache_greens : cache_greens]
    /\ g_cache = <<>>
    /\ g_call = NoGridCall
    /\ g_built = NoBuild

\* The cache test of RandomGridGreens.forward.
GridCacheTest(cache, voxel_size, shape) ==
    IF "_greens" \notin DOMAIN cache THEN "miss"
    ELSE IF "_voxel_size" \notin DOMAIN cache THEN "AttributeError"
    ELSE IF cache["_voxel_size"].v # voxel_size THEN "miss"
    ELSE IF "_shape" \notin DOMAIN cache THEN "AttributeError"
    ELSE IF cache["_shape"].v # shape THEN "miss"
    ELSE "hit"

\* The square-rooted kernel of the rebuild branch: the factor of the
\* decomposition when a Lame term is present, the elementwise root otherwise.
GridBuild(self, shape, voxel_size) ==
    LET w == self.weights
        lame == make_vector(w.lame, 2)
    IN  greens(shape, <<w.absolute, w.membrane, w.bending>>, lame, voxel_size)

GridStore(cache, kernel, voxel_size, shape) ==
    LET new == {"_greens", "_voxel_size", "_shape"}
    IN  [a \in DOMAIN cache \cup new |->
            IF a = "_greens" THEN [v |-> kernel]
            ELSE IF a = "_voxel_size" THEN [v |-> voxel_size]
            ELSE IF a = "_shape" THEN [v |-> shape]
            ELSE cache[a]]

\* Layout of the sampled field: the noise is drawn as
\* (2, batch, *shape, nb_dim) and keeps that layout through the filter, the
\* inverse transform and the mean offset.
GridSample(batch, shape) == <<2, batch>> \o shape \o <<Len(shape)>>

\* Variant: the comparison of the filter branch is not strict.
GridUsesMatvecNonStrict(kernel, nb_dim) == Len(kernel.dims) >= nb_dim

\* The test of the filter branch: `greens.dim() > nb_dim`.
GridUsesMatvec(kernel, nb_dim) == Len(kernel.dims) > nb_dim

\* RandomGridGreens.forward: the call record and the cache it leaves.
GridForward(self, cache, batch, overload) ==
    LET shape == overload.shape
        dtype == overload.dtype
        device == overload.device
        nb_dim == Len(shape)
        voxel_size == voxel_list(overload.voxel_size, nb_dim, dtype)
        test == GridCacheTest(cache, voxel_size, shape)
        kernel == IF test = "hit" THEN cache["_greens"].v
                  ELSE GridBuild(self, shape, voxel_size)
        store == test = "miss" /\ self.cache_greens
        sample == GridSample(batch, shape)
        matvec == GridUsesMatvec(kernel, nb_dim)
        filtered == IF matvec THEN sample
                    ELSE BroadcastShape(
                             BroadcastShape(sample, unsqueeze(kernel.dims, 1)),
                             <<nb_dim>>)
        filter_ok == matvec \/ Broadcastable(sample, unsqueeze(kernel.dims, 1))
        status == IF test = "AttributeError" THEN "AttributeError"
                  ELSE IF ~filter_ok THEN "RuntimeError"
                  ELSE "ok"
    IN  [cache |-> IF store THEN GridStore(cache, kernel, voxel_size, shape)
                   ELSE cache,
         call |-> [status |-> status,
                   rebuilt |-> test = "miss",
                   stored |-> store,
                   greens |-> IF test = "AttributeError" THEN NoKernel ELSE kernel,
                   branch |-> IF matvec THEN "matvec" ELSE "elementwise",
                   out |-> IF status = "ok" THEN Tail(filtered) ELSE <<>>,
                   batch |-> batch, shape |-> shape,
                   voxel_size |-> make_vector(overload.voxel_size, nb_dim),
                   dtype |-> dtype]]

GridOverloads ==
    [shape : GridShapes, voxel_size : VoxelSizes, dtype : Dtypes,
     device : Devices]

\* The effect of sampler(batch, **overload) on the instance.
GridCallWith(batch, overload) ==
    \E r \in {GridForward(g_self, g_cache, batch, overload)} :
        /\ g_cache' = r.cache
        /\ g_call' = r.call
        /\ g_built' = IF r.call.stored
                      THEN BuildOf(r.call, Len(r.call.shape))
                      ELSE g_built

\* A call of sampler(batch, **overload).
GridForwardCall ==
    /\ g_call.status = "none"
    /\ \E batch \in Batches, overload \in GridOverloads :
          GridCallWith(batch, overload)
    /\ UNCHANGED <<g_self, f_vars, vm_vars, r_vars, q_vars, h_vars, b_vars>>

\* The calls of a caller that keeps to cubic lattices, scalar voxel sizes,
\* one device and the default batch size.
GridCubeOverloads ==
    [shape : {[i \in 1..d |-> MaxExtent] : d \in 1..MaxDim},
     voxel_size : {<<v>> : v \in VoxelValues}, dtype : Dtypes, device : {"cpu"}]

GridForwardCallCube ==
    /\ g_call.status = "none"
    /\ \E overload \in GridCubeOverloads : GridCallWith(1, overload)
    /\ UNCHANGED <<g_self, f_vars, vm_vars, r_vars, q_vars, h_vars, b_vars>>

\* The call returns; only the cache attributes stay behind.
GridReturn ==
    /\ g_call.status # "none"
    /\ g_call' = NoGridCall
    /\ UNCHANGED <<g_self, g_cache, g_built, f_vars, vm_vars, r_vars, q_vars, h_vars, b_vars>>

\* Assignment to the public attribute cache_greens between two calls.
GridSetCacheGreens ==
    /\ g_call.status = "none"
    /\ \E b \in BOOLEAN :
          /\ b # g_self.cache_greens
          /\ g_self' = [g_self EXCEPT !.cache_greens = b]
    /\ UNCHANGED <<g_cache, g_call, g_built, f_vars, vm_vars, r_vars, q_vars, h_vars, b_vars>>

\* Assignment to a penalty weight attribute between two calls.
GridSetWeights ==
    /\ g_call.status = "none"
    /\ \E w \in GridWeightSets :
          /\ w # g_self.weights
          /\ g_self' = [g_self EXCEPT !.weights = w]
    /\ UNCHANGED <<g_cache, g_call, g_built, f_vars, vm_vars, r_vars, q_vars, h_vars, b_vars>>

GridNext == GridForwardCall \/ GridReturn \/ GridSetCacheGreens \/ GridSetWeights

GridCubeNext ==
    GridForwardCallCube \/ GridReturn \/ GridSetCacheGreens \/ GridSetWeights

\* This step is a forward call.
GridCalls == g_call.status = "none" /\ g_call'.status # "none"

\* The request of the call made by this step equals the request of the most
\* recent stored build (same shape, same voxel size values).
GridSameRequest ==
    /\ g_built.present
    /\ g_call'.shape = g_built.shape
    /\ g_call'.voxel_size = g_built.voxel_size

\* The call made by this step is in the dtype of the most recent stored
\* build and asks for its shape and for the same voxel sizes in that dtype.
GridSameRequestAndDtype ==
    /\ g_built.present
    /\ g_call'.shape = g_built.shape
    /\ g_call'.dtype = g_built.dtype
    /\ voxel_list(g_call'.voxel_size, Len(g_call'.shape), g_call'.dtype)
         = voxel_list(g_built.voxel_size, Len(g_built.shape), g_built.dtype)

\* C2: a forward call reuses the stored kernel if and only if caching is
\* enabled and its shape and voxel_size equal those of the most recent
\* stored build; otherwise it rebuilds, and stores the new kernel with its
\* key when caching is enabled.  Stated for the calls made in the dtype of
\* the stored build.
C2_GridCachePolicy ==
    [][(GridCalls /\ (g_built.present => g_call'.dtype = g_built.dtype))
       => (/\ ~g_call'.rebuilt <=> (g_self.cache_greens /\ GridSameRequestAndDtype)
           /\ ~g_call'.rebuilt => g_call'.greens = g_cache["_greens"].v
           /\ (g_call'.rebuilt /\ g_self.cache_greens) =>
                 /\ g_call'.stored
                 /\ g_cache'["_greens"].v = g_call'.greens
                 /\ g_cache'["_shape"].v = g_call'.shape)]_g_vars

\* C6: RandomGridGreens.forward(batch=B) on a d-dimensional lattice S
\* returns a field of shape (B, d, *S).
C6_GridOutputShape ==
    g_call.status # "none"
    => (/\ g_call.status = "ok"
        /\ g_call.out = <<g_call.batch, Len(g_call.shape)>> \o g_call.shape)

\* C7: with a stored kernel, a forward call that requests the shape and the
\* voxel_size value of the stored build does not rebuild, whatever dtype and
\* device it requests.
C7_DtypeChangeIsNoMiss ==
    [][(GridCalls /\ GridSameRequest)
       => (~g_call'.rebuilt /\ g_call'.greens = g_cache["_greens"].v)]_g_vars

\* C8: with caching enabled, after a penalty weight was changed since the
\* stored build, a call with the shape and voxel_size of that build does not
\* rebuild and filters with the stored kernel, built from the old weights.
C8_StaleKernelOnWeightChange ==
    [][(/\ GridCalls /\ GridSameRequest
        /\ g_self.cache_greens
        /\ GridBuild(g_self, g_cache["_shape"].v, g_cache["_voxel_size"].v)
             # g_cache["_greens"].v)
       => (~g_call'.rebuilt /\ g_call'.greens = g_cache["_greens"].v)]_g_vars

\* C17: the per-frequency matrix-vector product is applied exactly when the
\* kernel in use carries a Lame term, and the elementwise product with the
\* division by the root of the voxel size exactly when it carries none,
\* whether the kernel was rebuilt by the call or taken from the cache.
C17_FilterBranch ==
    g_call.status \notin {"none", "AttributeError"} =>
        /\ g_call.branch = "matvec" <=> any(g_call.greens.lame)
        /\ g_call.branch = "elementwise" <=> ~any(g_call.greens.lame)
        /\ g_call.branch = "matvec" <=>
              g_call.greens.dims = g_call.shape \o <<Len(g_call.shape), Len(g_call.shape)>>

\* A cached matrix kernel in use after the Lame weights were set to zero,
\* filtered by the matrix-vector product.
C17_Witness ==
    /\ g_call.status = "ok"
    /\ ~g_call.rebuilt
    /\ any(g_call.greens.lame)
    /\ ~any(g_self.weights.lame)
    /\ g_call.branch = "matvec"

\* =========================================================================
\* Concurrent forward calls on RandomGridGreens instances
\* =========================================================================
\* Threads call forward on sampler instances; a step of a thread is one read
\* or one write of an instance attribute, so that calls on the same instance
\* can interleave between any two of them.
Threads == {1, 2}
Instances == {1, 2}

\* The two keys the calls ask for.
RaceRequests ==
    {[shape |-> <<1>>, voxel_size |-> <<4>>],
     [shape |-> <<MaxExtent>>, voxel_size |-> <<4>>]}

RaceSelf == [mean |-> 0, weights |-> GridDefaults, cache_greens |-> TRUE]

NoThread ==
    [pc |-> "idle", inst |-> 0, shape |-> <<>>, voxel_size |-> <<>>,
     greens |-> NoKernel, status |-> "none"]

RaceInit(threads) ==
    /\ r_cache = [i \in Instances |-> <<>>]
    /\ r_thread = [t \in threads |-> NoThread]
    /\ r_raced = [i \in Instances |-> FALSE]

\* Variant: the cache attributes live on the class, shared by all instances.
RaceTargetShared(inst) == 1

\* The object whose attributes a call on instance `inst` reads and writes
\* (self).
RaceTarget(inst) == inst

\* self.<attr> = value
SetAttr(cache, attr, value) ==
    [a \in DOMAIN cache \cup {attr} |-> IF a = attr THEN [v |-> value] ELSE cache[a]]

\* Thread t moves to `pc`, with some of its local variables changed.
Goto(t, pc, kernel, status) ==
    r_thread' = [r_thread EXCEPT ![t].pc = pc, ![t].greens = kernel,
                                 ![t].status = status]

InCall(t, inst) == r_thread[t].pc # "idle" /\ r_thread[t].inst = inst

\* sampler(**overload) is entered: the arguments are read.
RaceCall(t) ==
    /\ r_thread[t].pc = "idle"
    /\ \E inst \in Instances, req \in RaceRequests :
          /\ r_thread' = [r_thread EXCEPT ![t] =
                [NoThread EXCEPT !.pc = "hasattr", !.inst = inst,
                                 !.shape = req.shape,
                                 !.voxel_size = voxel_list(req.voxel_size,
                                                           Len(req.shape), "float64")]]
          /\ r_raced' = [r_raced EXCEPT ![inst] =
                @ \/ \E u \in DOMAIN r_thread \ {t} : InCall(u, inst)]
    /\ UNCHANGED <<r_cache, f_vars, g_vars, vm_vars, q_vars, h_vars, b_vars>>

\* hasattr(self, '_greens')
RaceHasattr(t) ==
    LET me == r_thread[t]
        cache == r_cache[RaceTarget(me.inst)]
    IN  /\ me.pc = "hasattr"
        /\ Goto(t, IF "_greens" \in DOMAIN cache THEN "cmp_voxel" ELSE "build",
                me.greens, me.status)
        /\ UNCHANGED <<r_cache, r_raced, f_vars, g_vars, vm_vars, q_vars, h_vars, b_vars>>

\* self._voxel_size == voxel_size
RaceCmpVoxel(t) ==
    LET me == r_thread[t]
        cache == r_cache[RaceTarget(me.inst)]
    IN  /\ me.pc = "cmp_voxel"
        /\ IF "_voxel_size" \notin DOMAIN cache
           THEN Goto(t, "done", me.greens, "AttributeError")
           ELSE Goto(t, IF cache["_voxel_size"].v = me.voxel_size
                        THEN "cmp_shape" ELSE "build", me.greens, me.status)
        /\ UNCHANGED <<r_cache, r_raced, f_vars, g_vars, vm_vars, q_vars, h_vars, b_vars>>

\* self._shape == shape
RaceCmpShape(t) ==
    LET me == r_thread[t]
        cache == r_cache[RaceTarget(me.inst)]
    IN  /\ me.pc = "cmp_shape"
        /\ IF "_shape" \notin DOMAIN cache
           THEN Goto(t, "done", me.greens, "AttributeError")
           ELSE Goto(t, IF cache["_shape"].v = me.shape
                        THEN "load" ELSE "build", me.greens, me.status)
        /\ UNCHANGED <<r_cache, r_raced, f_vars, g_vars, vm_vars, q_vars, h_vars, b_vars>>

\* greens = self._greens.to(...), then the filter and the return value.
RaceLoad(t) ==
    LET me == r_thread[t]
        cache == r_cache[RaceTarget(me.inst)]
    IN  /\ me.pc = "load"
        /\ Goto(t, "done", cache["_greens"].v, "ok")
        /\ UNCHANGED <<r_cache, r_raced, f_vars, g_vars, vm_vars, q_vars, h_vars, b_vars>>

\* The rebuild branch up to the test of cache_greens.
RaceBuild(t) ==
    LET me == r_thread[t]
    IN  /\ me.pc = "build"
        /\ Goto(t, IF RaceSelf.cache_greens THEN "store_greens" ELSE "done",
                GridBuild(RaceSelf, me.shape, me.voxel_size),
                IF RaceSelf.cache_greens THEN me.status ELSE "ok")
        /\ UNCHANGED <<r_cache, r_raced, f_vars, g_vars, vm_vars, q_vars, h_vars, b_vars>>

\* self._greens = greens
RaceStoreGreens(t) ==
    LET me == r_thread[t]
        obj == RaceTarget(me.inst)
    IN  /\ me.pc = "store_greens"
        /\ r_cache' = [r_cache EXCEPT ![obj] = SetAttr(@, "_greens", me.greens)]
        /\ Goto(t, "store_voxel", me.greens, me.status)
        /\ UNCHANGED <<r_raced, f_vars, g_vars, vm_vars, q_vars, h_vars, b_vars>>

\* self._voxel_size = voxel_size
RaceStoreVoxel(t) ==
    LET me == r_thread[t]
        obj == RaceTarget(me.inst)
    IN  /\ me.pc = "store_voxel"
        /\ r_cache' = [r_cache EXCEPT ![obj] = SetAttr(@, "_voxel_size", me.voxel_size)]
        /\ Goto(t, "store_shape", me.greens, me.status)
        /\ UNCHANGED <<r_raced, f_vars, g_vars, vm_vars, q_vars, h_vars, b_vars>>

\* self._shape = shape, then the filter and the return value.
RaceStoreShape(t) ==
    LET me == r_thread[t]
        obj == RaceTarget(me.inst)
    IN  /\ me.pc = "store_shape"
        /\ r_cache' = [r_cache EXCEPT ![obj] = SetAttr(@, "_shape", me.shape)]
        /\ Goto(t, "done", me.greens, "ok")
        /\ UNCHANGED <<r_raced, f_vars, g_vars, vm_vars, q_vars, h_vars, b_vars>>

\* The call returns (or raises).
RaceReturn(t) ==
    /\ r_thread[t].pc = "done"
    /\ r_thread' = [r_thread EXCEPT ![t] = NoThread]
    /\ UNCHANGED <<r_cache, r_raced, f_vars, g_vars, vm_vars, q_vars, h_vars, b_vars>>

RaceStep(t) ==
    \/ RaceCall(t) \/ RaceHasattr(t) \/ RaceCmpVoxel(t) \/ RaceCmpShape(t)
    \/ RaceLoad(t) \/ RaceBuild(t) \/ RaceStoreGreens(t) \/ RaceStoreVoxel(t)
    \/ RaceStoreShape(t) \/ RaceReturn(t)

RaceNext == \E t \in Threads : RaceStep(t)

\* The stored kernel is the one built for the stored voxel size and shape.
Consistent(cache) ==
    \/ DOMAIN cache = {}
    \/ /\ DOMAIN cache = {"_greens", "_voxel_size", "_shape"}
       /\ cache["_greens"].v.shape = cache["_shape"].v
       /\ cache["_greens"].v.voxel_size = cache["_voxel_size"].v

\* No call is in progress on the instance.
Quiet(inst) == \A t \in DOMAIN r_thread : ~InCall(t, inst)

\* As long as the calls on an instance have been serialised, its cache is
\* consistent between calls and every call ends with the kernel of its key.
SerialisedIsSafe ==
    /\ \A inst \in Instances :
          (~r_raced[inst] /\ Quiet(inst)) => Consistent(r_cache[inst])
    /\ \A t \in DOMAIN r_thread :
          (r_thread[t].pc = "done" /\ ~r_raced[r_thread[t].inst]) =>
              /\ r_thread[t].status = "ok"
              /\ r_thread[t].greens.shape = r_thread[t].shape
              /\ r_thread[t].greens.voxel_size = r_thread[t].voxel_size

\* The cache of an instance changes only by a store of a call on it.
OwnCacheOnly ==
    \A inst \in Instances :
        r_cache'[inst] # r_cache[inst] =>
            \E t \in DOMAIN r_thread :
                /\ InCall(t, inst)
                /\ r_thread[t].pc \in {"store_greens", "store_voxel", "store_shape"}
                /\ r_thread'[t].pc # r_thread[t].pc

\* C14: the kernel cache is safe under a single-writer-at-a-time
\* discipline - with the calls on an instance serialised its stored kernel
\* corresponds to its stored voxel size and shape and every call uses the
\* kernel of its key - and calls on one instance never change the cache of
\* another.  (The state that interleaved calls reach is C14_Witness.)
C14_CacheSafety == []SerialisedIsSafe /\ [][OwnCacheOnly]_vars

\* Two calls with different keys have interleaved on one instance and have
\* both returned: the kernel they leave is not the one of the stored key,
\* while the other instance, used by serialised calls, is consistent.
C14_Witness ==
    \E inst \in Instances, other \in Instances :
        /\ r_raced[inst] /\ Quiet(inst)
        /\ DOMAIN r_cache[inst] = {"_greens", "_voxel_size", "_shape"}
        /\ ~Consistent(r_cache[inst])
        /\ ~r_raced[other] /\ Quiet(other)
        /\ DOMAIN r_cache[other] # {}

\* =========================================================================
\* The square-root stage of the samplers, on kernel values
\* =========================================================================
\* Kernel values are integers (the perfect squares below, so that roots are
\* exact), -1 stands for a slightly negative round-off value, and the root
\* of a negative number is NaN.
Squares == {0, 1, 4, 9}
KernelValues == Squares \cup {-1}

Num(v) == [nan |-> FALSE, v |-> v]
NaN == [nan |-> TRUE, v |-> 0]

\* torch.sqrt_ on one entry.
sqrt_(x) == IF x < 0 THEN NaN ELSE Num(CHOOSE r \in 0..x : r * r = x)

RECURSIVE Sum(_, _)
Sum(f, n) == IF n = 0 THEN 0 ELSE f[n] + Sum(f, n - 1)

MatMul(A, B) ==
    [i \in DOMAIN A |-> [j \in DOMAIN B[1] |->
        Sum([k \in DOMAIN B |-> A[i][k] * B[k][j]], Len(B))]]

Transpose(A) == [j \in DOMAIN A[1] |-> [i \in DOMAIN A |-> A[i][j]]]

Diag(v) == [i \in DOMAIN v |-> [j \in DOMAIN v |-> IF i = j THEN v[i] ELSE 0]]

\* Orthogonal matrices with entries on the grid: the permutation matrices
\* with signed entries.
Orthogonal(d) ==
    LET perms == {p \in [1..d -> 1..d] : \A i, j \in 1..d : p[i] = p[j] => i = j}
    IN  {[i \in 1..d |-> [j \in 1..d |-> IF j = ps.p[i] THEN ps.s[i] ELSE 0]] :
            ps \in [p : perms, s : [1..d -> {-1, 1}]]}

\* Singular values as torch.svd returns them: non-negative, in descending
\* order.
Descending(d) == {v \in [1..d -> Squares] : \A i \in 1..(d - 1) : v[i] >= v[i + 1]}

\* torch.svd of a symmetric positive semi-definite matrix: any of its
\* decompositions K = U diag(S) U^T.
svd(K) ==
    {us \in [U : Orthogonal(Len(K)), S : Descending(Len(K))] :
        MatMul(MatMul(us.U, Diag(us.S)), Transpose(us.U)) = K}

\* x.unsqueeze(-1) of a vector: a column.
UnsqueezeLast(v) == [i \in DOMAIN v |-> <<v[i]>>]

\* A * B for a matrix A and a B that broadcasts to its shape.
MulBroadcast(A, B) ==
    [i \in DOMAIN A |-> [j \in DOMAIN A[i] |->
        A[i][j] * B[IF Len(B) = 1 THEN 1 ELSE i][IF Len(B[1]) = 1 THEN 1 ELSE j]]]

\* The matrix branch (field.py:423-425): the factor for one decomposition.
MatrixRoot(us) ==
    LET scale == [i \in DOMAIN us.S |-> sqrt_(us.S[i]).v]
    IN  MulBroadcast(us.U, UnsqueezeLast(scale))

\* The scalar branch (field.py:427 and :311): greens.sqrt_().
ScalarRoot(K) == [i \in DOMAIN K |-> sqrt_(K[i])]

\* Kernels handed to the stage: with a Lame term, the symmetric positive
\* semi-definite matrix at one frequency; without, the values at the sites
\* of a lattice.
MatrixKernels ==
    UNION {{MatMul(MatMul(U, Diag(v)), Transpose(U)) :
               U \in Orthogonal(d), v \in Descending(d)} : d \in 1..MaxDim}

ScalarKernels == SeqsUpTo(KernelValues, MaxExtent)

NoRoot == [stage |-> "none", sampler |-> "none", lame |-> <<0, 0>>, K |-> <<>>,
           U |-> <<>>, S |-> <<>>, R |-> <<>>]

RootInputs ==
    {[NoRoot EXCEPT !.stage = "in", !.lame = <<1, 2>>, !.K = K] : K \in MatrixKernels}
    \cup {[NoRoot EXCEPT !.stage = "in", !.K = K] : K \in ScalarKernels}

RootInit(kernels) == q_root \in kernels

\* RandomGridGreens.forward, lines 422-427.
GridRoot ==
    /\ q_root.stage = "in"
    /\ IF any(q_root.lame)
       THEN \E us \in svd(q_root.K) :
               q_root' = [q_root EXCEPT !.stage = "out", !.sampler = "grid",
                                        !.U = us.U, !.S = us.S,
                                        !.R = MatrixRoot(us)]
       ELSE q_root' = [q_root EXCEPT !.stage = "out", !.sampler = "grid",
                                     !.R = ScalarRoot(q_root.K)]
    /\ UNCHANGED <<f_vars, g_vars, vm_vars, r_vars, h_vars, b_vars>>

\* RandomFieldGreens.forward, lines 310-311 (lame=0: scalar kernels only).
FieldRoot ==
    /\ q_root.stage = "in"
    /\ ~any(q_root.lame)
    /\ q_root' = [q_root EXCEPT !.stage = "out", !.sampler = "field",
                                !.R = ScalarRoot(q_root.K)]
    /\ UNCHANGED <<f_vars, g_vars, vm_vars, r_vars, h_vars, b_vars>>

RootNext == GridRoot \/ FieldRoot

\* C15: for a matrix-valued kernel K = U diag(lambda) V^T the factor R that
\* is built is U diag(sqrt(lambda)) - R[i][j] = U[i][j] * sqrt(lambda[j]) -
\* so that R R^T = K.
C15_MatrixRootIsFactor ==
    (q_root.stage = "out" /\ any(q_root.lame)) =>
        /\ \A i \in DOMAIN q_root.R : \A j \in DOMAIN q_root.R :
              q_root.R[i][j] = q_root.U[i][j] * sqrt_(q_root.S[j]).v
        /\ MatMul(q_root.R, Transpose(q_root.R)) = q_root.K

\* C16: in the scalar square-root stage of both samplers negative kernel
\* values are clipped to zero before the root, so that every entry of the
\* result is a well-defined non-negative number.
C16_ScalarRootClips ==
    (q_root.stage = "out" /\ ~any(q_root.lame)) =>
        \A i \in DOMAIN q_root.R :
            /\ ~q_root.R[i].nan
            /\ q_root.R[i] = sqrt_(Max(0, q_root.K[i]))

\* =========================================================================
\* VoxelMorph
\* =========================================================================
\* Lattices of the registration model: per dimensionality, the one-site
\* lattice, the largest cube and one anisotropic lattice.
VMShapes ==
    UNION {{[i \in 1..d |-> 1], [i \in 1..d |-> MaxExtent],
            [i \in 1..d |-> IF i = 1 THEN 1 ELSE MaxExtent]} : d \in 1..MaxDim}

\* Images and segmentations (batch, channel, *spatial), one channel.
VMTensors == {<<b, 1>> \o sh : b \in Batches, sh \in VMShapes}

\* Velocities (batch, *spatial, nb_dim).
VMVelocities == {<<b>> \o sh \o <<Len(sh)>> : b \in Batches, sh \in VMShapes}

None == <<>>

Downsamples == {1, 2}

ExpTrace(op, type, in, out) == [op |-> op, type |-> type, in |-> in, out |-> out]

NoVMCall ==
    [fn |-> "none", status |-> "none", trace |-> <<>>, grid |-> <<>>,
     source |-> None, target |-> None, source_seg |-> None,
     target_seg |-> None, velocity |-> None, displacement |-> FALSE,
     deformed_source |-> None, deformed_source_seg |-> None,
     kind |-> "none", grid_kind |-> "none", ret |-> <<>>, pulls |-> <<>>]

\* The defaults of the exp dictionary (registration.py:120-129); the penalty
\* weights are in units of 1e-4.
ExpDefaults ==
    [interpolation |-> 1, bound |-> "dft", steps |-> 8, shoot |-> FALSE,
     downsample |-> 2, absolute |-> 1, membrane |-> 10, bending |-> 2000,
     lame |-> <<500, 2000>>, factor |-> 1]

\* d.setdefault(k, v) for every key of `defaults`.
setdefaults(d, defaults) ==
    [k \in DOMAIN d \cup DOMAIN defaults |-> IF k \in DOMAIN d THEN d[k] ELSE defaults[k]]

\* d.pop(k) for every key of `keys` (a missing key is passed over).
pop(d, keys) == [k \in DOMAIN d \ keys |-> d[k]]

RECURSIVE prod(_)
prod(v) == IF v = <<>> THEN 1 ELSE Head(v) * prod(Tail(v))

\* Variant: the factor is scaled by the downsampling of the first axis only.
ShootFactorOneAxis(factor, downsample_vel) == factor * downsample_vel[1]

\* exp['factor'] *= py.prod(downsample_vel)
ShootFactor(factor, downsample_vel) == factor * prod(downsample_vel)

\* The options left for GridShoot (registration.py:135-138).
ShootOptions(exp, downsample_vel) ==
    LET e == pop(exp, {"interpolation", "bound", "voxel_size"})
    IN  [e EXCEPT !["factor"] = ShootFactor(@, downsample_vel)]

\* Variant: the factor is left in the options of the scaling-and-squaring
\* layer.
ExpOptionsKeepFactor(exp) == pop(exp, {"absolute", "membrane", "bending", "lame"})

\* The options left for GridExp (registration.py:140-144).
ExpOptions(exp) == pop(exp, {"absolute", "membrane", "bending", "lame", "factor"})

\* A dictionary object: its content and whether it is the object the caller
\* passed or one made by the constructor.
Passed(d) == [id |-> "caller", d |-> d]

\* x or {}: None and the empty dictionary give a new empty dictionary.
or_empty(obj) == IF DOMAIN obj.d = {} THEN [id |-> "new", d |-> <<>>] ELSE obj

\* Variant: the constructor works on the dictionary it is given.
dict_same(obj) == obj

\* dict(x): a new dictionary with the items of x.
dict(obj) == [id |-> "new", d |-> obj.d]

\* What the dictionary the caller passed holds once the constructor is done
\* with its local one.
Held(arg, local) == IF local.id = "caller" THEN local.d ELSE arg

\* The defaults of the unet and pull dictionaries (registration.py:108-118).
UnetDefaults ==
    [encoder |-> <<16, 32, 32, 32, 32>>, decoder |-> <<32, 32, 32, 32, 16, 16>>,
     kernel_size |-> 3, pool |-> "None", unpool |-> "None",
     activation |-> "LeakyReLU(0.2)"]

PullDefaults == [interpolation |-> 1, bound |-> "dct2", extrapolate |-> FALSE]

\* The local unet and pull dictionaries when the layers are created.
UnetLocal(unet) ==
    LET local == dict(or_empty(Passed(unet)))
    IN  [local EXCEPT !.d = setdefaults(@, UnetDefaults)]

PullLocal(pull) ==
    LET local == dict(or_empty(Passed(pull)))
    IN  [local EXCEPT !.d = setdefaults(@, PullDefaults)]

\* The local exp dictionary when the layers are created, with the values
\* popped from it on the way (registration.py:119-144).
ExpLocal(dim, exp) ==
    LET local == dict(or_empty(Passed(exp)))
        all == setdefaults(local.d, ExpDefaults)
        do_shoot == all["shoot"]
        downsample_vel == make_vector(<<all["downsample"]>>, dim)
        rest == pop(all, {"shoot", "downsample"})
    IN  [id |-> local.id,
         d |-> IF do_shoot THEN ShootOptions(rest, downsample_vel) ELSE ExpOptions(rest),
         do_shoot |-> do_shoot,
         downsample_vel |-> downsample_vel,
         vel_inter |-> rest["interpolation"],
         vel_bound |-> rest["bound"]]

\* VoxelMorph.__init__: the per-axis downsampling factors, the factors of the
\* resize layer (1/f, kept as the divisor f), the exponentiation layer and
\* the options each layer is created with.
VMConstruct(dim, exp) ==
    LET local == ExpLocal(dim, exp)
    IN  [dim |-> dim,
         resize_factor |-> [i \in 1..dim |-> [num |-> 1, den |-> local.downsample_vel[i]]],
         resize_kwargs |-> [interpolation |-> local.vel_inter, bound |-> local.vel_bound],
         velexp |-> IF local.do_shoot THEN "GridShoot" ELSE "GridExp",
         velexp_kwargs |-> local.d,
         unet |-> "generic"]

\* The same model with a feature network that returns fields of the given
\* kind ("zero": all-zero velocities, "generic": anything else).
VMWithNet(self, kind) == [self EXCEPT !.unet = kind]

\* The models that can be constructed.
VMModels ==
    {VMConstruct(dim, exp) :
        dim \in 1..MaxDim, exp \in [shoot : BOOLEAN, downsample : Downsamples]}

NoNew == [fn |-> "none", dim |-> 0, exp |-> <<>>]

\* The caller keeps no dictionaries.
NoHeld ==
    [unet |-> <<>>, pull |-> <<>>, exp |-> <<>>,
     given |-> [unet |-> <<>>, pull |-> <<>>, exp |-> <<>>], built |-> <<>>]

HeldInit(dicts) == vm_held \in dicts

VMInit(models) ==
    /\ vm_self \in models
    /\ vm_call = NoVMCall
    /\ vm_new = NoNew

\* GridResize.forward: a shape given at the call is the output lattice;
\* otherwise every extent is scaled by the factor and rounded down, to no
\* less than one site.
GridResize(spatial, factor, shape) ==
    IF shape # None THEN shape
    ELSE [i \in 1..Len(spatial) |->
             Max(1, (spatial[i] * factor[i].num) \div factor[i].den)]

\* Variant: the way back undoes the downsampling by the inverse factor.
ExpBackByInverseFactor(shape, self) ==
    [shape |-> None,
     factor |-> [i \in DOMAIN self.resize_factor |->
                    [num |-> self.resize_factor[i].den,
                     den |-> self.resize_factor[i].num]]]

\* The target of the resize back to native resolution in VoxelMorph.exp.
ExpBackTarget(shape, self) == [shape |-> shape, factor |-> None]

\* What a field holds, as far as the pipeline can tell: "zero" (every
\* component is zero), "identity" (every site holds its own coordinates) or
\* "generic" (anything else).
VelocityKinds == {"zero", "generic"}

\* The field type a resize layer reads from its `type` argument.
GridType(type) == IF type \in {"disp", "displacement"} THEN "displacement" ELSE "grid"

\* Values of a resized field.  On the same lattice a resize is a no-op.  On
\* another lattice a displacement field is interpolated and rescaled, which
\* keeps zero at zero; a grid of coordinates is interpolated and mapped to
\* the coordinates of the new lattice, which keeps the identity.
ResizeValue(kind, type, same_lattice) ==
    IF same_lattice THEN kind
    ELSE IF GridType(type) = "displacement"
         THEN (IF kind = "zero" THEN "zero" ELSE "generic")
         ELSE (IF kind = "identity" THEN "identity" ELSE "generic")

\* Values of the exponentiated field (GridExp and GridShoot alike): a zero
\* velocity gives a zero displacement, or the identity transformation.
ExpValue(kind, displacement) ==
    IF kind # "zero" THEN "generic"
    ELSE IF displacement THEN "zero" ELSE "identity"

\* Values of an image resampled at a grid: the identity grid returns it
\* unchanged.
PullValue(image, kind) == IF kind = "identity" THEN image ELSE "warped"

\* Variant: the type of the resize back with its two cases swapped.
ExpBackTypeSwapped(displacement) == IF displacement THEN "grid" ELSE "disp"

\* The `type` argument of the resize back in VoxelMorph.exp.
ExpBackType(displacement) == IF displacement THEN "disp" ELSE "grid"

\* VoxelMorph.exp: the three stages, in order, and the grid they yield.
VMExp(self, velocity, kind, displacement) ==
    LET b == Head(velocity)
        d == velocity[Len(velocity)]
        shape == SubSeq(velocity, 2, Len(velocity) - 1)
        small == GridResize(shape, self.resize_factor, None)
        velocity_small == <<b>> \o small \o <<d>>
        back == ExpBackTarget(shape, self)
        native == GridResize(small, back.factor, back.shape)
        grid == <<b>> \o native \o <<d>>
        back_type == ExpBackType(displacement)
        small_kind == ResizeValue(kind, "displacement", small = shape)
        exp_kind == ExpValue(small_kind, displacement)
    IN  [trace |->
            <<ExpTrace("resize", "displacement", velocity, velocity_small),
              ExpTrace(self.velexp,
                       IF displacement THEN "displacement" ELSE "transformation",
                       velocity_small, velocity_small),
              ExpTrace("resize", back_type, velocity_small, grid)>>,
         grid |-> grid,
         kind |-> ResizeValue(exp_kind, back_type, native = small)]

\* check.dim(dim, *tensors): every tensor that is given has dim + 2 axes.
CheckDim(dim, tensors) ==
    \A i \in DOMAIN tensors : tensors[i] = None \/ Len(tensors[i]) = dim + 2

\* check.shape(x, y, dims, broadcast_ok): when both tensors are given, they
\* agree on every listed axis (axes counted from 0), up to broadcasting of a
\* singleton when that is allowed.
CheckShape(x, y, dims, broadcast_ok) ==
    \/ x = None
    \/ y = None
    \/ \A a \in dims :
          /\ a + 1 \in DOMAIN x
          /\ a + 1 \in DOMAIN y
          /\ \/ x[a + 1] = y[a + 1]
             \/ broadcast_ok /\ (x[a + 1] = 1 \/ y[a + 1] = 1)

\* Variant: the segmentation maps are not checked.
VMSanityChecksImagesOnly(self, source, target, source_seg, target_seg) ==
    LET spatial == 2..(self.dim + 1)
    IN  IF ~CheckDim(self.dim, <<source, target>>) THEN 1
        ELSE IF ~CheckShape(target, source, {0}, TRUE) THEN 2
        ELSE IF ~CheckShape(target, source, spatial, FALSE) THEN 3
        ELSE 0

\* The sanity checks of VoxelMorph.forward, in the order they are made; the
\* index of the first one that fails, or 0.
VMSanityChecks(self, source, target, source_seg, target_seg) ==
    LET spatial == 2..(self.dim + 1)
    IN  IF ~CheckDim(self.dim, <<source, target>>) THEN 1
        ELSE IF ~CheckShape(target, source, {0}, TRUE) THEN 2
        ELSE IF ~CheckShape(target, source, spatial, FALSE) THEN 3
        ELSE IF ~CheckShape(target_seg, source_seg, {0}, TRUE) THEN 4
        ELSE IF ~CheckShape(target_seg, source_seg, spatial, FALSE) THEN 5
        ELSE 0

Op(name) == ExpTrace(name, "", None, None)

\* A local variable of forward: its name, its shape, what it holds and the
\* operations it stems from.
Tensor(var, shape, kind, by) == [var |-> var, shape |-> shape, kind |-> kind, by |-> by]

\* Variant: the whole shapes are compared, batch and channel axes included.
VMSegResizeWholeShape(source_seg, source) == source_seg # source

\* The test that decides whether the grid is resized for the segmentation.
VMSegResize(source_seg, source) ==
    SubSeq(source_seg, 3, Len(source_seg)) # SubSeq(source, 3, Len(source))

\* Variant: the deformation grid is returned in the place of the velocity.
VMReturnGrid(loc, source_seg) ==
    IF source_seg = None THEN <<loc.deformed_source, loc.grid>>
    ELSE <<loc.deformed_source, loc.deformed_source_seg, loc.grid>>

\* The return statement of VoxelMorph.forward.
VMReturnTuple(loc, source_seg) ==
    IF source_seg = None THEN <<loc.deformed_source, loc.velocity>>
    ELSE <<loc.deformed_source, loc.deformed_source_seg, loc.velocity>>

\* Variant: forward asks exp for a displacement field.
VMForwardDisplacementTrue == TRUE

\* The `displacement` argument of the exp call of forward (left at its
\* default).
VMForwardDisplacement == FALSE

\* The outcome of a forward call that raised after `trace`.
VMRaised(status, trace) ==
    [status |-> status, trace |-> trace, velocity |-> None, grid |-> None,
     deformed_source |-> None, deformed_source_seg |-> None,
     kind |-> "none", grid_kind |-> "none", ret |-> <<>>, pulls |-> <<>>]

\* The operations of VoxelMorph.forward that follow the sanity checks.
VMChain(self, source, target, source_seg) ==
    LET cat_ok == source[1] = target[1]
        spatial == SubSeq(source, 3, Len(source))
        velocity == Tensor("velocity", <<source[1]>> \o spatial \o <<self.dim>>,
                           self.unet, <<"cat", "unet", "channel2last">>)
        e == VMExp(self, velocity.shape, velocity.kind, VMForwardDisplacement)
        grid == Tensor("grid", e.grid, e.kind, velocity.by \o <<"exp">>)
        deformed_source ==
            Tensor("deformed_source",
                   SubSeq(source, 1, 2) \o SubSeq(grid.shape, 2, Len(grid.shape) - 1),
                   PullValue("source", grid.kind), grid.by \o <<"pull">>)
        seg_spatial == SubSeq(source_seg, 3, Len(source_seg))
        resized == source_seg # None /\ VMSegResize(source_seg, source)
        resize_ok == Len(seg_spatial) = self.dim
        seg_grid == IF resized
                    THEN Tensor("grid", <<source[1]>> \o seg_spatial \o <<self.dim>>,
                                ResizeValue(grid.kind, "grid", seg_spatial = spatial),
                                grid.by \o <<"resize_grid">>)
                    ELSE grid
        pull_ok == source_seg[1] = source[1] \/ source_seg[1] = 1 \/ source[1] = 1
        deformed_source_seg ==
            Tensor("deformed_source_seg",
                   <<Max(source_seg[1], source[1]), source_seg[2]>> \o seg_spatial,
                   PullValue("source_seg", seg_grid.kind), seg_grid.by \o <<"pull">>)
        head == <<Op("cat")>>
        chain == head \o <<Op("unet"), Op("channel2last")>> \o e.trace
                      \o <<Op("pull")>>
        seg_chain == chain \o (IF resized THEN <<Op("resize_grid")>> ELSE <<>>)
        loc == [velocity |-> velocity, grid |-> grid,
                deformed_source |-> deformed_source,
                deformed_source_seg |-> None]
        done == [status |-> "ok", trace |-> chain, velocity |-> velocity.shape,
                 grid |-> grid.shape, deformed_source |-> deformed_source.shape,
                 deformed_source_seg |-> None,
                 kind |-> velocity.kind, grid_kind |-> grid.kind,
                 ret |-> VMReturnTuple(loc, source_seg),
                 pulls |-> <<[image |-> "source", grid |-> grid]>>]
    IN  IF ~cat_ok THEN VMRaised("RuntimeError", head)
        ELSE IF source_seg = None THEN done
        ELSE IF resized /\ ~resize_ok THEN VMRaised("RuntimeError", seg_chain)
        ELSE IF ~pull_ok THEN VMRaised("RuntimeError", seg_chain \o <<Op("pull")>>)
        ELSE [done EXCEPT
                 !.trace = seg_chain \o <<Op("pull")>>,
                 !.deformed_source_seg = deformed_source_seg.shape,
                 !.ret = VMReturnTuple(
                             [loc EXCEPT !.grid = seg_grid,
                                         !.deformed_source_seg = deformed_source_seg],
                             source_seg),
                 !.pulls = @ \o <<[image |-> "source_seg", grid |-> seg_grid]>>]

\* VoxelMorph.forward
VMForward(self, source, target, source_seg, target_seg) ==
    LET failed == VMSanityChecks(self, source, target, source_seg, target_seg)
        checks == [i \in 1..(IF failed = 0 THEN 5 ELSE failed) |->
                      Op(IF i = 1 THEN "check.dim" ELSE "check.shape")]
        c == IF failed # 0 THEN VMRaised("ValueError", <<>>)
             ELSE VMChain(self, source, target, source_seg)
    IN  [fn |-> "forward", status |-> c.status, trace |-> checks \o c.trace,
         grid |-> c.grid, source |-> source, target |-> target,
         source_seg |-> source_seg, target_seg |-> target_seg,
         velocity |-> c.velocity, displacement |-> VMForwardDisplacement,
         deformed_source |-> c.deformed_source,
         deformed_source_seg |-> c.deformed_source_seg,
         kind |-> c.kind, grid_kind |-> c.grid_kind,
         ret |-> c.ret, pulls |-> c.pulls]

\* A call of model.exp(velocity, displacement) on a velocity of the model's
\* dimensionality.
VMExpCall ==
    /\ vm_call.fn = "none"
    /\ \E velocity \in VMVelocities, displacement \in BOOLEAN :
          /\ velocity[Len(velocity)] = vm_self.dim
          /\ \E kind \in VelocityKinds :
             \E e \in {VMExp(vm_self, velocity, kind, displacement)} :
                vm_call' = [NoVMCall EXCEPT !.fn = "exp", !.status = "ok",
                                            !.trace = e.trace, !.grid = e.grid,
                                            !.velocity = velocity,
                                            !.displacement = displacement,
                                            !.kind = kind,
                                            !.grid_kind = e.kind]
    /\ UNCHANGED <<vm_self, vm_new, vm_held, f_vars, g_vars, r_vars, q_vars, h_vars, b_vars>>

\* A call of model(source, target, source_seg, target_seg).
VMForwardCall ==
    /\ vm_call.fn = "none"
    /\ \E source \in VMTensors, target \in VMTensors,
          source_seg \in VMTensors \cup {None},
          target_seg \in VMTensors \cup {None} :
          vm_call' = VMForward(vm_self, source, target, source_seg, target_seg)
    /\ UNCHANGED <<vm_self, vm_new, vm_held, f_vars, g_vars, r_vars, q_vars, h_vars, b_vars>>

\* The call returns (or raises): its arrays are handed to the caller and
\* nothing of it stays on the instance.
VMReturn ==
    /\ vm_call.fn # "none"
    /\ vm_call' = NoVMCall
    /\ UNCHANGED <<vm_self, vm_new, vm_held, f_vars, g_vars, r_vars, q_vars, h_vars, b_vars>>

VMNext == VMExpCall \/ VMForwardCall \/ VMReturn

\* The dimensionalities the constructor documents (registration.py:72).
Dimensionalities == {1, 2, 3}

\* The keys a caller may put in the exp dictionary, and a value other than
\* the default for each; shoot and downsample are drawn by the call.
ExpKeys == DOMAIN ExpDefaults \cup {"voxel_size"}

ExpSupplied ==
    [interpolation |-> 0, bound |-> "dct2", steps |-> 4, absolute |-> 3,
     membrane |-> 7, bending |-> 11, lame |-> <<13, 17>>, factor |-> 5,
     voxel_size |-> <<19>>]

SuppliedDownsamples == {1, 3}

\* The caller supplies up to MaxSupplied of the keys, or all of them.
MaxSupplied == 3

ExpKeySets == {K \in SUBSET ExpKeys : Cardinality(K) <= MaxSupplied \/ K = ExpKeys}

ExpDict(K, shoot, downsample) ==
    [k \in K |-> CASE k = "shoot" -> shoot
                   [] k = "downsample" -> downsample
                   [] OTHER -> ExpSupplied[k]]

\* A call of VoxelMorph(dim, exp=exp): the instance is the one the
\* constructor builds from the caller's dictionary.
VMNew ==
    /\ vm_new.fn = "none"
    /\ vm_call.fn = "none"
    /\ \E dim \in Dimensionalities, K \in ExpKeySets :
       \E shoot \in IF "shoot" \in K THEN BOOLEAN ELSE {FALSE},
          downsample \in IF "downsample" \in K THEN SuppliedDownsamples ELSE {2} :
          /\ vm_new' = [fn |-> "__init__", dim |-> dim,
                        exp |-> ExpDict(K, shoot, downsample)]
          /\ vm_self' = VMConstruct(dim, ExpDict(K, shoot, downsample))
    /\ UNCHANGED <<vm_call, vm_held, f_vars, g_vars, r_vars, q_vars, h_vars, b_vars>>

\* The constructor returns the instance.
VMNewReturn ==
    /\ vm_new.fn = "__init__"
    /\ vm_new' = NoNew
    /\ UNCHANGED <<vm_self, vm_call, vm_held, f_vars, g_vars, r_vars, q_vars, h_vars, b_vars>>

VMNewNext == VMNew \/ VMNewReturn

\* Dictionaries a caller writes once and passes to several constructors.
UnetDicts == {<<>>, [kernel_size |-> 5, pool |-> "max"]}

PullDicts == {<<>>, [bound |-> "dft"]}

ExpDicts ==
    {ExpDict(K, shoot, downsample) :
        K \in ExpKeySets, shoot \in BOOLEAN, downsample \in SuppliedDownsamples}

HeldDicts ==
    {[unet |-> u, pull |-> p, exp |-> e,
      given |-> [unet |-> u, pull |-> p, exp |-> e], built |-> <<>>] :
        u \in UnetDicts, p \in PullDicts, e \in ExpDicts}

MaxModels == 2      \* largest number of models built from the same dictionaries

\* A call of VoxelMorph(dim, unet, pull, exp) with the dictionaries the
\* caller keeps: what the layers are created with is recorded, and the
\* caller's dictionaries hold whatever the constructor left in them.
VMNewHeld ==
    /\ vm_new.fn = "none"
    /\ vm_call.fn = "none"
    /\ Len(vm_held.built) < MaxModels
    /\ \E dim \in Dimensionalities :
          /\ vm_new' = [fn |-> "__init__", dim |-> dim, exp |-> vm_held.exp]
          /\ vm_self' = VMConstruct(dim, vm_held.exp)
          /\ vm_held' = [vm_held EXCEPT
                           !.unet = Held(@, UnetLocal(@)),
                           !.pull = Held(@, PullLocal(@)),
                           !.exp = Held(@, ExpLocal(dim, @)),
                           !.built = Append(@, [dim |-> dim,
                                                unet |-> UnetLocal(vm_held.unet).d,
                                                pull |-> PullLocal(vm_held.pull).d,
                                                velexp |-> vm_self'.velexp,
                                                exp |-> vm_self'.velexp_kwargs])]
    /\ UNCHANGED <<vm_call, f_vars, g_vars, r_vars, q_vars, h_vars, b_vars>>

VMHeldNext == VMNewHeld \/ VMNewReturn

\* C9: VoxelMorph.exp runs exactly three stages, each once and in this
\* order - resize onto the integration lattice, exponentiate there, resize
\* back - each stage consuming the output of the one before, and the grid it
\* returns has the shape of the input velocity.
C9_ExpThreeStages ==
    vm_call.fn = "exp" =>
        /\ Len(vm_call.trace) = 3
        /\ vm_call.trace[1].op = "resize"
        /\ vm_call.trace[2].op = vm_self.velexp
        /\ vm_call.trace[3].op = "resize"
        /\ vm_call.trace[1].in = vm_call.velocity
        /\ vm_call.trace[2].in = vm_call.trace[1].out
        /\ vm_call.trace[3].in = vm_call.trace[2].out
        /\ vm_call.grid = vm_call.trace[3].out
        /\ vm_call.grid = vm_call.velocity

\* An exp call that really moved to a coarser lattice and came back.
C9_Witness ==
    /\ vm_call.fn = "exp"
    /\ vm_call.trace[1].out # vm_call.velocity
    /\ \E i \in DOMAIN vm_self.resize_factor : vm_self.resize_factor[i].den = 2
    /\ vm_call.grid = vm_call.velocity

SpatialOf(t) == SubSeq(t, 3, Len(t))

Disagree(x, y) ==
    \/ SpatialOf(x) # SpatialOf(y)
    \/ ~(x[1] = y[1] \/ x[1] = 1 \/ y[1] = 1)

\* The segmentation maps are both given, with the axes of the model.
SegsGiven ==
    /\ vm_call.source_seg # None /\ vm_call.target_seg # None
    /\ Len(vm_call.source_seg) = vm_self.dim + 2
    /\ Len(vm_call.target_seg) = vm_self.dim + 2

RanPastChecks ==
    \E i \in DOMAIN vm_call.trace :
        vm_call.trace[i].op \notin {"check.dim", "check.shape"}

ForwardDone == vm_call.fn = "forward" /\ vm_call.status = "ok"

RawVelocity == <<"cat", "unet", "channel2last">>

\* C11: forward returns (deformed_source, velocity) without a source
\* segmentation and (deformed_source, deformed_source_seg, velocity) with
\* one; the velocity returned is the output of the feature network with its
\* axes reordered to channel-last, not the resized velocity nor the grid.
C11_ReturnContract ==
    ForwardDone =>
        LET ret == vm_call.ret
            velocity == ret[Len(ret)]
        IN  /\ Len(ret) = IF vm_call.source_seg = None THEN 2 ELSE 3
            /\ ret[1].var = "deformed_source"
            /\ ret[1].shape = vm_call.source
            /\ vm_call.source_seg # None => ret[2].var = "deformed_source_seg"
            /\ velocity.var = "velocity"
            /\ velocity.by = RawVelocity
            /\ velocity.kind = vm_self.unet
            /\ velocity.shape = <<vm_call.source[1]>> \o SpatialOf(vm_call.source)
                                    \o <<vm_self.dim>>

\* A call with a source segmentation whose velocity was integrated on a
\* coarser lattice and whose grid was resized for the segmentation.
C11_Witness ==
    /\ ForwardDone
    /\ Len(vm_call.ret) = 3
    /\ \E i \in DOMAIN vm_call.trace :
          /\ vm_call.trace[i].op = "resize"
          /\ vm_call.trace[i].out # vm_call.trace[i].in
    /\ vm_call.ret[3].by = RawVelocity
    /\ vm_call.pulls[2].grid.by # vm_call.pulls[1].grid.by

\* C12: a source segmentation is resampled with the deformation of the
\* image; the grid is resized to the segmentation's lattice before that if
\* and only if its spatial shape differs from the source image's, and the
\* image is always resampled with the grid as exp returned it.
C12_SegPropagation ==
    ForwardDone =>
        LET pulls == vm_call.pulls
            differs == SpatialOf(vm_call.source_seg) # SpatialOf(vm_call.source)
            resizes == {i \in DOMAIN vm_call.trace :
                            vm_call.trace[i].op = "resize_grid"}
        IN  /\ pulls[1].image = "source"
            /\ pulls[1].grid.by = RawVelocity \o <<"exp">>
            /\ pulls[1].grid.shape = vm_call.grid
            /\ vm_call.source_seg = None => (Len(pulls) = 1 /\ resizes = {})
            /\ vm_call.source_seg # None =>
                 /\ Len(pulls) = 2
                 /\ pulls[2].image = "source_seg"
                 /\ resizes # {} <=> differs
                 /\ ~differs => pulls[2].grid = pulls[1].grid
                 /\ differs =>
                      /\ pulls[2].grid.by = pulls[1].grid.by \o <<"resize_grid">>
                      /\ SubSeq(pulls[2].grid.shape, 2, Len(pulls[2].grid.shape) - 1)
                           = SpatialOf(vm_call.source_seg)

\* A segmentation on another lattice than the image, of another batch size.
C12_Witness ==
    /\ ForwardDone
    /\ vm_call.source_seg # None
    /\ SpatialOf(vm_call.source_seg) # SpatialOf(vm_call.source)
    /\ vm_call.source_seg[1] # vm_call.source[1]
    /\ Len(vm_call.pulls) = 2
    /\ vm_call.pulls[2].grid.by = RawVelocity \o <<"exp", "resize_grid">>

\* C13: when the feature network returns an all-zero velocity, forward
\* returns the source unchanged and an all-zero velocity; exp of a zero
\* velocity is the identity grid in transformation mode and a zero field in
\* displacement mode, with either exponentiation layer.
C13_ZeroVelocityIdentity ==
    /\ (ForwardDone /\ vm_call.kind = "zero") =>
          /\ vm_call.ret[1].kind = "source"
          /\ vm_call.ret[Len(vm_call.ret)].kind = "zero"
    /\ (vm_call.fn = "exp" /\ vm_call.kind = "zero") =>
          vm_call.grid_kind = IF vm_call.displacement THEN "zero" ELSE "identity"

\* A zero velocity integrated by the shooting layer on a coarser lattice.
C13_Witness ==
    /\ ForwardDone
    /\ vm_call.kind = "zero"
    /\ vm_self.velexp = "GridShoot"
    /\ \E i \in DOMAIN vm_call.trace :
          /\ vm_call.trace[i].op = "resize"
          /\ vm_call.trace[i].out # vm_call.trace[i].in
    /\ vm_call.ret[1].kind = "source"

\* C18: in exp the downsizing resize treats the velocity as a displacement,
\* the exponentiation layer is given the displacement flag of the call, and
\* the resize back treats its input as a displacement exactly when the flag
\* is set and as a grid exactly when it is not.
C18_ResizeTypes ==
    vm_call.fn = "exp" =>
        /\ GridType(vm_call.trace[1].type) = "displacement"
        /\ vm_call.trace[2].type =
              IF vm_call.displacement THEN "displacement" ELSE "transformation"
        /\ GridType(vm_call.trace[3].type) = "displacement" <=> vm_call.displacement
        /\ GridType(vm_call.trace[3].type) = "grid" <=> ~vm_call.displacement

\* A displacement asked of the shooting layer and resized back from a
\* coarser lattice.
C18_Witness ==
    /\ vm_call.fn = "exp"
    /\ vm_call.displacement
    /\ vm_self.velexp = "GridShoot"
    /\ vm_call.trace[3].type = "disp"
    /\ vm_call.trace[3].in # vm_call.trace[3].out

\* What the caller asked for: the supplied value of a key, or its default.
Asked(k) == IF k \in DOMAIN vm_new.exp THEN vm_new.exp[k] ELSE ExpDefaults[k]

RECURSIVE Power(_, _)
Power(x, n) == IF n = 0 THEN 1 ELSE x * Power(x, n - 1)

\* C19: the constructor creates one exponentiation layer, chosen by `shoot`.
\* Without shooting the scaling-and-squaring layer receives interpolation,
\* bound and steps and none of absolute, membrane, bending, lame, factor;
\* with shooting the shooting layer receives absolute, membrane, bending,
\* lame and factor and neither interpolation nor bound; shoot and downsample
\* reach neither layer; every option other than factor is passed with the
\* value the caller supplied, or its default.
C19_StrategySelection ==
    vm_new.fn = "__init__" =>
        LET kwargs == vm_self.velexp_kwargs
            passed == DOMAIN kwargs
            penalties == {"absolute", "membrane", "bending", "lame", "factor"}
        IN  /\ vm_self.velexp = IF Asked("shoot") THEN "GridShoot" ELSE "GridExp"
            /\ ~Asked("shoot") =>
                  /\ {"interpolation", "bound", "steps"} \subseteq passed
                  /\ passed \cap penalties = {}
            /\ Asked("shoot") =>
                  /\ penalties \subseteq passed
                  /\ passed \cap {"interpolation", "bound"} = {}
            /\ passed \cap {"shoot", "downsample"} = {}
            /\ \A k \in passed \ {"factor"} : kwargs[k] = Asked(k)

C19_Witness ==
    /\ vm_new.fn = "__init__"
    /\ vm_new.exp = ExpDict(ExpKeys, TRUE, 3)
    /\ vm_self.velexp = "GridShoot"
    /\ vm_self.velexp_kwargs["lame"] = <<13, 17>>

\* C20: with shooting, the factor handed to the shooting layer is the
\* configured factor (1 when not supplied) times the product of the per-axis
\* downsampling factors, a scalar downsample counting once per axis; without
\* shooting no factor is passed.
C20_ShootFactor ==
    vm_new.fn = "__init__" =>
        IF Asked("shoot")
        THEN vm_self.velexp_kwargs["factor"]
                = Asked("factor") * Power(Asked("downsample"), vm_new.dim)
        ELSE "factor" \notin DOMAIN vm_self.velexp_kwargs

C20_Witness ==
    /\ vm_new.fn = "__init__"
    /\ vm_new.dim = 3
    /\ DOMAIN vm_new.exp = {"shoot"}
    /\ vm_new.exp["shoot"]
    /\ vm_self.velexp_kwargs["factor"] = 8

\* What the caller wrote in the exp dictionary: the value of a key, or its
\* default.
Given(k) ==
    IF k \in DOMAIN vm_held.given.exp THEN vm_held.given.exp[k] ELSE ExpDefaults[k]

\* C23: the constructor never modifies the unet, pull and exp dictionaries
\* the caller passes (no key added, removed or rescaled), so the models
\* built from the same dictionaries get the same configuration - models of
\* the same dimensionality the same exponentiation options, and in shoot
\* mode each the factor scaled once, whatever was built before.
C23_CallerUntouched ==
    /\ vm_held.unet = vm_held.given.unet
    /\ vm_held.pull = vm_held.given.pull
    /\ vm_held.exp = vm_held.given.exp
    /\ \A i \in DOMAIN vm_held.built :
          LET m == vm_held.built[i]
          IN  /\ m.unet = vm_held.built[1].unet
              /\ m.pull = vm_held.built[1].pull
              /\ m.velexp = vm_held.built[1].velexp
              /\ m.dim = vm_held.built[1].dim => m.exp = vm_held.built[1].exp
              /\ Given("shoot") =>
                    m.exp["factor"] = Given("factor") * Power(Given("downsample"), m.dim)

C23_Witness ==
    /\ Len(vm_held.built) = MaxModels
    /\ vm_held.given.exp = ExpDict({"shoot", "factor", "downsample"}, TRUE, 3)
    /\ vm_held.given.unet # <<>>
    /\ vm_held.given.pull # <<>>
    /\ \A i \in DOMAIN vm_held.built :
          vm_held.built[i].dim = 2 /\ vm_held.built[i].exp["factor"] = 45

\* ------------------------------------------- hyper-parameter samplers
\* Hyper-parameters are vectors of numbers in tenths, taken as already
\* representable in the dtype of the call.
HyperClasses == {"_HyperRandomField", "HyperRandomMultiplicativeField"}

HyperNames == {"mean", "amplitude", "fwhm"}

\* _get_dist(name): the distribution class of that name, None for None.
NoFamily == "None"

_get_dist(name) == name

Families == {"normal", "lognormal", "uniform", "gamma"}

\* The constructor's defaults (field.py:460-464, 648-651).
HyperDefaults(class) ==
    IF class = "_HyperRandomField"
    THEN [class |-> class,
          mean |-> [dist |-> _get_dist("normal"), exp |-> <<0>>, scale |-> <<0>>],
          amplitude |-> [dist |-> _get_dist("lognormal"), exp |-> <<10>>, scale |-> <<10>>],
          fwhm |-> [dist |-> _get_dist("lognormal"), exp |-> <<10>>, scale |-> <<10>>]]
    ELSE [class |-> class,
          mean |-> [dist |-> _get_dist(NoFamily), exp |-> <<10>>, scale |-> <<1>>],
          amplitude |-> [dist |-> _get_dist("lognormal"), exp |-> <<10>>, scale |-> <<100>>],
          fwhm |-> [dist |-> _get_dist("lognormal"), exp |-> <<50>>, scale |-> <<20>>]]

\* The constructor called with the three hyper-parameters of one parameter.
HyperConstruct(class, name, hyper) == [HyperDefaults(class) EXCEPT ![name] = hyper]

HyperExps == {<<0>>, <<10>>, <<0, 10>>}

HyperScales == {<<0>>, <<10>>, <<-10>>, <<10, 0>>, <<10, 10>>, <<0, 0>>}

HyperObjects ==
    {HyperConstruct(class, name, [dist |-> _get_dist(family), exp |-> e, scale |-> sc]) :
        class \in HyperClasses, name \in HyperNames,
        family \in Families \cup {NoFamily}, e \in HyperExps, sc \in HyperScales}

NoHyperCall == [pc |-> "none", batch |-> 0, samplers |-> <<>>, drawn |-> <<>>]

HyperInit(objects) ==
    /\ h_self \in objects
    /\ h_call = NoHyperCall

\* Variant: one positive component is enough.
SomePositive(scale) == \E i \in DOMAIN scale : scale[i] > 0

\* (scale > 0).all()
AllPositive(scale) == \A i \in DOMAIN scale : scale[i] > 0

\* _make_sampler(name) of either class.
_make_sampler(self, name) ==
    LET exp == self[name].exp
        scale == self[name].scale
        dist == self[name].dist
    IN  IF dist # NoFamily /\ AllPositive(scale)
        THEN [family |-> dist, exp |-> exp, scale |-> scale]
        ELSE [family |-> "dirac", exp |-> exp, scale |-> <<>>]

\* sampler.sample(): the expectation for the degenerate sampler, else a value
\* of the distribution (the expectation displaced by `draw`).
HyperDraws == {0, 10}

sample(sampler, draw) ==
    IF sampler.family = "dirac" THEN sampler.exp
    ELSE [i \in DOMAIN sampler.exp |-> sampler.exp[i] + draw]

\* forward(batch) is called.
HyperForwardCall ==
    /\ h_call.pc = "none"
    /\ \E batch \in Batches :
          h_call' = [NoHyperCall EXCEPT !.pc = "mean", !.batch = batch]
    /\ UNCHANGED <<h_self, f_vars, g_vars, vm_vars, r_vars, q_vars, b_vars>>

\* The three samplers are made, in the order mean, amplitude, fwhm.
HyperMakeSampler ==
    /\ h_call.pc \in HyperNames
    /\ LET name == h_call.pc
           next == CASE name = "mean" -> "amplitude"
                     [] name = "amplitude" -> "fwhm"
                     [] OTHER -> "loop"
       IN  h_call' = [h_call EXCEPT
                        !.pc = next,
                        !.samplers = [n \in DOMAIN h_call.samplers \cup {name} |->
                                        IF n = name THEN _make_sampler(h_self, name)
                                        ELSE h_call.samplers[n]]]
    /\ UNCHANGED <<h_self, f_vars, g_vars, vm_vars, r_vars, q_vars, b_vars>>

\* One batch element: each sampler is sampled once and the values are handed
\* to the field class.
HyperSample ==
    /\ h_call.pc = "loop"
    /\ Len(h_call.drawn) < h_call.batch
    /\ \E d \in [HyperNames -> HyperDraws] :
          h_call' = [h_call EXCEPT
                       !.drawn = Append(@, [n \in HyperNames |->
                                              sample(h_call.samplers[n], d[n])])]
    /\ UNCHANGED <<h_self, f_vars, g_vars, vm_vars, r_vars, q_vars, b_vars>>

HyperLoopEnd ==
    /\ h_call.pc = "loop"
    /\ Len(h_call.drawn) = h_call.batch
    /\ h_call' = [h_call EXCEPT !.pc = "done"]
    /\ UNCHANGED <<h_self, f_vars, g_vars, vm_vars, r_vars, q_vars, b_vars>>

HyperReturn ==
    /\ h_call.pc = "done"
    /\ h_call' = NoHyperCall
    /\ UNCHANGED <<h_self, f_vars, g_vars, vm_vars, r_vars, q_vars, b_vars>>

HyperNext ==
    HyperForwardCall \/ HyperMakeSampler \/ HyperSample \/ HyperLoopEnd \/ HyperReturn

\* A sampler must be degenerate when no family is given or some component
\* of the scale is not strictly positive.
Degenerate(hyper) == hyper.dist = NoFamily \/ \E i \in DOMAIN hyper.scale : hyper.scale[i] <= 0

\* C21: _make_sampler returns a sampler that always yields the expectation
\* when no distribution family is given or some component of the scale is not
\* strictly positive; otherwise it returns the named distribution built from
\* (expectation, scale).  With the default mean_scale = 0 every batch element
\* of _HyperRandomField gets mean exactly mean_exp.
C21_DegenerateSampler ==
    /\ \A name \in DOMAIN h_call.samplers :
          IF Degenerate(h_self[name])
          THEN /\ h_call.samplers[name].family = "dirac"
               /\ \A b \in DOMAIN h_call.drawn : h_call.drawn[b][name] = h_self[name].exp
          ELSE h_call.samplers[name] = [family |-> h_self[name].dist,
                                         exp |-> h_self[name].exp,
                                         scale |-> h_self[name].scale]
    /\ (h_self.class = "_HyperRandomField" /\ h_self.mean.scale = <<0>>) =>
          \A b \in DOMAIN h_call.drawn : h_call.drawn[b]["mean"] = h_self.mean.exp

C21_Witness ==
    /\ h_call.pc = "done"
    /\ Len(h_call.drawn) = MaxBatch
    /\ h_self.class = "_HyperRandomField"
    /\ h_self.mean = HyperDefaults("_HyperRandomField").mean
    /\ h_self.fwhm.dist = "gamma"
    /\ h_self.fwhm.scale = <<10, 0>>
    /\ \A b \in DOMAIN h_call.drawn :
          /\ h_call.drawn[b]["mean"] = <<0>>
          /\ h_call.drawn[b]["fwhm"] = h_self.fwhm.exp
          /\ h_call.drawn[b]["amplitude"] # h_self.amplitude.exp

\* ------------------------------------------------ registration_board
MaxCalls == 3       \* largest number of calls that log figures

Modes == {"train", "eval", "None"}

\* A module that was never passed to registration_board has no tbstep.
NoSteps == [has_tbstep |-> FALSE, tbstep |-> <<>>]

NoBoardCall ==
    [pc |-> "none", grad |-> FALSE, depth |-> 0, inputs |-> FALSE,
     mode |-> "None", do_eval |-> TRUE, do_train |-> TRUE,
     before |-> [self |-> NoSteps, tb |-> <<>>]]

BoardInit(modules) ==
    /\ b_self \in modules
    /\ b_tb = <<>>
    /\ b_call = NoBoardCall

\* The early return (registration.py:286-289).
BoardSkips(c) ==
    \/ (~c.do_eval /\ c.mode = "eval")
    \/ (~c.do_train /\ c.mode = "train")
    \/ ~c.inputs

\* Variant: the step dictionary is created anew by every call.
BoardBumpFresh(self, mode) ==
    [has_tbstep |-> TRUE, tbstep |-> [m \in {mode} |-> 1]]

\* if not hasattr(self, 'tbstep'): self.tbstep = dict()
\* self.tbstep.setdefault(mode, 0); self.tbstep[mode] += 1
BoardBump(self, mode) ==
    LET tbstep == IF self.has_tbstep THEN self.tbstep ELSE <<>>
        with_mode == setdefaults(tbstep, [m \in {mode} |-> 0])
    IN  [has_tbstep |-> TRUE, tbstep |-> [with_mode EXCEPT ![mode] = @ + 1]]

\* tb.add_figure(f'{kind}/{mode}', fig, global_step=step)
add_figure(tb, kind, mode, step) == Append(tb, [kind |-> kind, mode |-> mode, step |-> step])

\* registration_board(self, tb, inputs, ..., mode, do_eval, do_train) is
\* called, with gradients enabled or not; `inputs` tells whether it is given.
BoardCall ==
    /\ b_call.pc = "none"
    /\ Len(b_tb) < 2 * MaxCalls
    /\ \E grad \in BOOLEAN, inputs \in BOOLEAN, mode \in Modes,
          do_eval \in BOOLEAN, do_train \in BOOLEAN :
          b_call' = [pc |-> "entry", grad |-> grad, depth |-> 0, inputs |-> inputs,
                     mode |-> mode, do_eval |-> do_eval, do_train |-> do_train,
                     before |-> [self |-> b_self, tb |-> b_tb]]
    /\ UNCHANGED <<b_self, b_tb, f_vars, g_vars, vm_vars, r_vars, q_vars, h_vars>>

\* With gradients enabled the function calls itself with the same arguments
\* under no_grad (registration.py:279-284).
BoardReenter ==
    /\ b_call.pc = "entry"
    /\ b_call.grad
    /\ b_call' = [b_call EXCEPT !.grad = FALSE, !.depth = @ + 1]
    /\ UNCHANGED <<b_self, b_tb, f_vars, g_vars, vm_vars, r_vars, q_vars, h_vars>>

BoardSkip ==
    /\ b_call.pc = "entry"
    /\ ~b_call.grad
    /\ BoardSkips(b_call)
    /\ b_call' = [b_call EXCEPT !.pc = "return"]
    /\ UNCHANGED <<b_self, b_tb, f_vars, g_vars, vm_vars, r_vars, q_vars, h_vars>>

\* The first figure is drawn, the step of the mode is advanced and the
\* figure is logged (registration.py:291-412).
BoardWarps ==
    /\ b_call.pc = "entry"
    /\ ~b_call.grad
    /\ ~BoardSkips(b_call)
    /\ b_self' = BoardBump(b_self, b_call.mode)
    /\ b_tb' = add_figure(b_tb, "warps", b_call.mode, b_self'.tbstep[b_call.mode])
    /\ b_call' = [b_call EXCEPT !.pc = "vel"]
    /\ UNCHANGED <<f_vars, g_vars, vm_vars, r_vars, q_vars, h_vars>>

\* The second figure is drawn and logged (registration.py:414-440).
BoardVel ==
    /\ b_call.pc = "vel"
    /\ b_tb' = add_figure(b_tb, "vel", b_call.mode, b_self.tbstep[b_call.mode])
    /\ b_call' = [b_call EXCEPT !.pc = "return"]
    /\ UNCHANGED <<b_self, f_vars, g_vars, vm_vars, r_vars, q_vars, h_vars>>

\* The nested call returns: the outer call leaves the no_grad block and
\* returns its result.
BoardUnwind ==
    /\ b_call.pc = "return"
    /\ b_call.depth > 0
    /\ b_call' = [b_call EXCEPT !.depth = @ - 1, !.grad = TRUE, !.pc = "returned"]
    /\ UNCHANGED <<b_self, b_tb, f_vars, g_vars, vm_vars, r_vars, q_vars, h_vars>>

BoardReturn ==
    /\ \/ b_call.pc = "return" /\ b_call.depth = 0
       \/ b_call.pc = "returned"
    /\ b_call' = NoBoardCall
    /\ UNCHANGED <<b_self, b_tb, f_vars, g_vars, vm_vars, r_vars, q_vars, h_vars>>

BoardNext ==
    BoardCall \/ BoardReenter \/ BoardSkip \/ BoardWarps \/ BoardVel \/ BoardUnwind
        \/ BoardReturn

\* The steps logged under one figure name, in the order they were logged.
RECURSIVE LoggedSteps(_, _, _)
LoggedSteps(tb, kind, mode) ==
    IF tb = <<>> THEN <<>>
    ELSE LET rest == LoggedSteps(Tail(tb), kind, mode)
         IN  IF Head(tb).kind = kind /\ Head(tb).mode = mode
             THEN <<Head(tb).step>> \o rest ELSE rest

\* The step of a mode on a module; 0 when it was never counted.
StepOf(self, mode) ==
    IF self.has_tbstep /\ mode \in DOMAIN self.tbstep THEN self.tbstep[mode] ELSE 0

BoardOver == b_call.pc \in {"return", "returned"}

\* C22: a call that is skipped (no inputs, or mode 'eval' with do_eval false,
\* or mode 'train' with do_train false) leaves every step counter as it was
\* and logs nothing; every other call advances the counter of its own mode
\* by exactly one, leaves the counters of the other modes alone and logs
\* 'warps/<mode>' then 'vel/<mode>' with the new step - so the steps logged
\* under each figure name are 1, 2, 3, ... without gap or repeat, also when
\* the call re-enters itself under no_grad.
C22_StepCounter ==
    /\ BoardOver =>
          LET c == b_call
              skipped == ~c.inputs \/ (c.mode = "eval" /\ ~c.do_eval)
                            \/ (c.mode = "train" /\ ~c.do_train)
              step == StepOf(c.before.self, c.mode) + 1
          IN  IF skipped
              THEN /\ \A m \in Modes : StepOf(b_self, m) = StepOf(c.before.self, m)
                   /\ b_tb = c.before.tb
              ELSE /\ StepOf(b_self, c.mode) = step
                   /\ \A m \in Modes \ {c.mode} :
                         StepOf(b_self, m) = StepOf(c.before.self, m)
                   /\ b_tb = c.before.tb \o
                               <<[kind |-> "warps", mode |-> c.mode, step |-> step],
                                 [kind |-> "vel", mode |-> c.mode, step |-> step]>>
    /\ \A kind \in {"warps", "vel"}, m \in Modes :
          LET steps == LoggedSteps(b_tb, kind, m)
          IN  \A i \in DOMAIN steps : steps[i] = i

C22_Witness ==
    /\ b_call.pc = "returned"
    /\ b_call.mode = "eval"
    /\ StepOf(b_self, "eval") = 2
    /\ StepOf(b_self, "train") = 1
    /\ LoggedSteps(b_tb, "vel", "eval") = <<1, 2>>
    /\ LoggedSteps(b_tb, "warps", "train") = <<1>>

\* One specification per component; the other two stay as constructed.
InitField ==
    /\ FieldInit(BOOLEAN)
    /\ GridInit({TRUE})
    /\ VMInit({VMConstruct(1, [shoot |-> FALSE, downsample |-> 2])})
    /\ HeldInit({NoHeld})
    /\ RaceInit({1})
    /\ RootInit({NoRoot})
    /\ HyperInit({HyperDefaults("_HyperRandomField")})
    /\ BoardInit({NoSteps})

InitGrid ==
    /\ FieldInit({TRUE})
    /\ GridInit(BOOLEAN)
    /\ VMInit({VMConstruct(1, [shoot |-> FALSE, downsample |-> 2])})
    /\ HeldInit({NoHeld})
    /\ RaceInit({1})
    /\ RootInit({NoRoot})
    /\ HyperInit({HyperDefaults("_HyperRandomField")})
    /\ BoardInit({NoSteps})

InitVM ==
    /\ FieldInit({TRUE})
    /\ GridInit({TRUE})
    /\ VMInit(VMModels)
    /\ HeldInit({NoHeld})
    /\ RaceInit({1})
    /\ RootInit({NoRoot})
    /\ HyperInit({HyperDefaults("_HyperRandomField")})
    /\ BoardInit({NoSteps})

SpecField == InitField /\ [][FieldNext]_vars

SpecGrid == InitGrid /\ [][GridNext]_vars

SpecGridCube == InitGrid /\ [][GridCubeNext]_vars

SpecVM == InitVM /\ [][VMNext]_vars

\* Two threads and two sampler instances.
InitRace ==
    /\ FieldInit({TRUE})
    /\ GridInit({TRUE})
    /\ VMInit({VMConstruct(1, [shoot |-> FALSE, downsample |-> 2])})
    /\ HeldInit({NoHeld})
    /\ RaceInit(Threads)
    /\ RootInit({NoRoot})
    /\ HyperInit({HyperDefaults("_HyperRandomField")})
    /\ BoardInit({NoSteps})

SpecRace == InitRace /\ [][RaceNext]_vars

\* The square-root stage on every kernel of the input sets.
InitRoot ==
    /\ FieldInit({TRUE})
    /\ GridInit({TRUE})
    /\ VMInit({VMConstruct(1, [shoot |-> FALSE, downsample |-> 2])})
    /\ HeldInit({NoHeld})
    /\ RaceInit({1})
    /\ RootInit(RootInputs)
    /\ HyperInit({HyperDefaults("_HyperRandomField")})
    /\ BoardInit({NoSteps})

SpecRoot == InitRoot /\ [][RootNext]_vars

\* The registration model with a feature network that returns zero.
InitVMZero ==
    /\ FieldInit({TRUE})
    /\ GridInit({TRUE})
    /\ VMInit({VMWithNet(m, "zero") : m \in VMModels})
    /\ HeldInit({NoHeld})
    /\ RaceInit({1})
    /\ RootInit({NoRoot})
    /\ HyperInit({HyperDefaults("_HyperRandomField")})
    /\ BoardInit({NoSteps})

SpecVMZero == InitVMZero /\ [][VMNext]_vars

\* Constructor calls of the registration model.
InitVMNew ==
    /\ FieldInit({TRUE})
    /\ GridInit({TRUE})
    /\ VMInit({VMConstruct(1, [shoot |-> FALSE, downsample |-> 2])})
    /\ HeldInit({NoHeld})
    /\ RaceInit({1})
    /\ RootInit({NoRoot})
    /\ HyperInit({HyperDefaults("_HyperRandomField")})
    /\ BoardInit({NoSteps})

SpecVMNew == InitVMNew /\ [][VMNewNext]_vars

\* Forward calls of the hyper-random fields, for every choice of the
\* hyper-parameters of one parameter.
InitHyper ==
    /\ FieldInit({TRUE})
    /\ GridInit({TRUE})
    /\ VMInit({VMConstruct(1, [shoot |-> FALSE, downsample |-> 2])})
    /\ HeldInit({NoHeld})
    /\ RaceInit({1})
    /\ RootInit({NoRoot})
    /\ HyperInit(HyperObjects)
    /\ BoardInit({NoSteps})

SpecHyper == InitHyper /\ [][HyperNext]_vars

\* Calls of registration_board on one module and one summary writer.
InitBoard ==
    /\ FieldInit({TRUE})
    /\ GridInit({TRUE})
    /\ VMInit({VMConstruct(1, [shoot |-> FALSE, downsample |-> 2])})
    /\ HeldInit({NoHeld})
    /\ RaceInit({1})
    /\ RootInit({NoRoot})
    /\ HyperInit({HyperDefaults("_HyperRandomField")})
    /\ BoardInit({NoSteps})

SpecBoard == InitBoard /\ [][BoardNext]_vars

\* Several constructor calls with the same dictionaries.
InitVMHeld ==
    /\ FieldInit({TRUE})
    /\ GridInit({TRUE})
    /\ VMInit({VMConstruct(1, [shoot |-> FALSE, downsample |-> 2])})
    /\ HeldInit(HeldDicts)
    /\ RaceInit({1})
    /\ RootInit({NoRoot})
    /\ HyperInit({HyperDefaults("_HyperRandomField")})
    /\ BoardInit({NoSteps})

SpecVMHeld == InitVMHeld /\ [][VMHeldNext]_vars

====
